---------------------------- MODULE Spec2Model ----------------------------
(***************************************************************************)
(* Model of src/main.py: the SerpAPI travel server.  Two tools,            *)
(* search_flights and search_hotels, build an upstream query, hand it to   *)
(* make_serpapi_request (one HTTP GET), and shape the answer into a JSON   *)
(* string.  Python values are tagged records; a tool invocation is a       *)
(* coroutine with one suspension point, the await of client.get.           *)
(***************************************************************************)
EXTENDS Integers, Sequences, FiniteSets, TLC

(* ----------------------------- bounds --------------------------------- *)
\* number of coroutines the host may have in flight at once
NInv == 2
\* longest best_flights array the upstream sends
MaxBest == 11
\* longest other_flights array the upstream sends
MaxOther == 11
\* longest properties array the upstream sends
MaxProps == 8

(* -------------------------- Python values ----------------------------- *)
PyNone == [t |-> "none"]
PyBool(b) == [t |-> "bool", b |-> b]
PyInt(n) == [t |-> "int", n |-> n]
\* a finite float with one decimal digit: tenths / 10
PyFloat(tenths) == [t |-> "float", tenths |-> tenths]
PyInf == [t |-> "inf"]
PyNaN == [t |-> "nan"]
PyStr(s) == [t |-> "str", s |-> s]
PyList(a) == [t |-> "list", a |-> a]
\* a dict keeps its keys in insertion order; vals[i] belongs to keys[i]
PyDict(keys, vals) == [t |-> "dict", keys |-> keys, vals |-> vals]
EmptyDict == PyDict(<<>>, <<>>)

\* bool(v): what `if v` / `not v` test
Truthy(v) ==
    CASE v.t = "none" -> FALSE
      [] v.t = "bool" -> v.b
      [] v.t = "int" -> v.n # 0
      [] v.t = "float" -> v.tenths # 0
      [] v.t = "str" -> v.s # ""
      [] v.t = "list" -> v.a # <<>>
      [] v.t = "dict" -> v.keys # <<>>
      [] OTHER -> TRUE

KeyIndex(d, k) == CHOOSE i \in 1..Len(d.keys) : d.keys[i] = k
DictHas(d, k) == \E i \in 1..Len(d.keys) : d.keys[i] = k
\* d.get(k, default)
DictGet(d, k, default) == IF DictHas(d, k) THEN d.vals[KeyIndex(d, k)] ELSE default
\* d[k] = v
DictSet(d, k, v) ==
    IF DictHas(d, k)
    THEN PyDict(d.keys, [d.vals EXCEPT ![KeyIndex(d, k)] = v])
    ELSE PyDict(Append(d.keys, k), Append(d.vals, v))
\* d without its key k
DictWithout(d, k) ==
    IF DictHas(d, k)
    THEN PyDict(SubSeq(d.keys, 1, KeyIndex(d, k) - 1)
                    \o SubSeq(d.keys, KeyIndex(d, k) + 1, Len(d.keys)),
                SubSeq(d.vals, 1, KeyIndex(d, k) - 1)
                    \o SubSeq(d.vals, KeyIndex(d, k) + 1, Len(d.vals)))
    ELSE d
\* list(d.keys())
DictKeys(d) == PyList([i \in 1..Len(d.keys) |-> PyStr(d.keys[i])])

Min(a, b) == IF a < b THEN a ELSE b
\* s contains sub as a contiguous substring
Contains(s, sub) ==
    \E i \in 1..(Len(s) - Len(sub) + 1) : SubSeq(s, i, i + Len(sub) - 1) = sub

\* the result of an evaluation that may raise
Ok(v) == [ok |-> TRUE, v |-> v]
Raise(exc, msg) == [ok |-> FALSE, exc |-> exc, msg |-> msg]

(* ------------------------ text conversions ---------------------------- *)
DigitChar(d) == SubSeq("0123456789", d + 1, d + 1)
RECURSIVE NatStr(_)
NatStr(n) == IF n < 10 THEN DigitChar(n) ELSE NatStr(n \div 10) \o DigitChar(n % 10)
IntStr(n) == IF n < 0 THEN "-" \o NatStr(-n) ELSE NatStr(n)

Abs(n) == IF n < 0 THEN -n ELSE n
FloatStr(tenths) ==
    (IF tenths < 0 THEN "-" ELSE "") \o NatStr(Abs(tenths) \div 10) \o "." \o DigitChar(Abs(tenths) % 10)

Spaces(n) == [i \in 1..n |-> " "]
RECURSIVE JoinStr(_, _)
\* sep.join(parts)
JoinStr(parts, sep) ==
    IF parts = <<>> THEN ""
    ELSE IF Len(parts) = 1 THEN parts[1]
    ELSE parts[1] \o sep \o JoinStr(Tail(parts), sep)

RECURSIVE PyRepr(_)
\* repr(v), which str(v) and f"{v}" use for every value but a str
PyRepr(v) ==
    CASE v.t = "none" -> "None"
      [] v.t = "bool" -> IF v.b THEN "True" ELSE "False"
      [] v.t = "int" -> IntStr(v.n)
      [] v.t = "float" -> FloatStr(v.tenths)
      [] v.t = "str" -> "'" \o v.s \o "'"
      [] v.t = "list" -> "[" \o JoinStr([i \in 1..Len(v.a) |-> PyRepr(v.a[i])], ", ") \o "]"
      [] v.t = "dict" ->
           "{" \o JoinStr([i \in 1..Len(v.keys) |->
                             "'" \o v.keys[i] \o "': " \o PyRepr(v.vals[i])], ", ") \o "}"
      [] OTHER -> v.t
\* str(v)
PyStrOf(v) == IF v.t = "str" THEN v.s ELSE PyRepr(v)

RECURSIVE DumpsAt(_, _)
\* json.dumps(v, indent=2), v nested `level` containers deep
DumpsAt(v, level) ==
    LET nl == "\n" \o JoinStr(Spaces(2 * (level + 1)), "")
        close == "\n" \o JoinStr(Spaces(2 * level), "")
    IN CASE v.t = "none" -> "null"
         [] v.t = "bool" -> IF v.b THEN "true" ELSE "false"
         [] v.t = "int" -> IntStr(v.n)
         [] v.t = "float" -> FloatStr(v.tenths)
         [] v.t = "str" -> "\"" \o v.s \o "\""
         [] v.t = "list" ->
              IF v.a = <<>> THEN "[]"
              ELSE "[" \o nl
                   \o JoinStr([i \in 1..Len(v.a) |-> DumpsAt(v.a[i], level + 1)], "," \o nl)
                   \o close \o "]"
         [] v.t = "dict" ->
              IF v.keys = <<>> THEN "{}"
              ELSE "{" \o nl
                   \o JoinStr([i \in 1..Len(v.keys) |->
                                 "\"" \o v.keys[i] \o "\": " \o DumpsAt(v.vals[i], level + 1)],
                              "," \o nl)
                   \o close \o "}"
Dumps(v) == DumpsAt(v, 0)


(* ---------------------- builtins the tools use ------------------------ *)
TypeName(v) ==
    CASE v.t = "none" -> "NoneType"
      [] v.t \in {"float", "inf", "nan"} -> "float"
      [] OTHER -> v.t

IsDigit(c) == \E d \in 0..9 : DigitChar(d) = c
DigitVal(c) == CHOOSE d \in 0..9 : DigitChar(d) = c
AllDigits(s) == \A i \in 1..Len(s) : IsDigit(SubSeq(s, i, i))
RECURSIVE NatVal(_)
NatVal(s) == IF s = "" THEN 0
             ELSE 10 * NatVal(SubSeq(s, 1, Len(s) - 1)) + DigitVal(SubSeq(s, Len(s), Len(s)))
RECURSIVE Strip(_)
\* s.strip() for blanks
Strip(s) ==
    IF s # "" /\ SubSeq(s, 1, 1) = " " THEN Strip(SubSeq(s, 2, Len(s)))
    ELSE IF s # "" /\ SubSeq(s, Len(s), Len(s)) = " " THEN Strip(SubSeq(s, 1, Len(s) - 1))
    ELSE s

\* the literal's parts: digits before and after the first "."
DecimalLiteral(ip, fp, neg, s0) ==
    IF AllDigits(ip) /\ AllDigits(fp) /\ (ip # "" \/ fp # "")
    THEN Ok(PyFloat((IF neg THEN -1 ELSE 1)
                    * (10 * NatVal(ip) + (IF fp = "" THEN 0 ELSE DigitVal(SubSeq(fp, 1, 1))))))
    ELSE Raise("ValueError", "could not convert string to float: '" \o s0 \o "'")
FirstDot(u) ==
    IF \E i \in 1..Len(u) : SubSeq(u, i, i) = "."
    THEN CHOOSE i \in 1..Len(u) :
            /\ SubSeq(u, i, i) = "."
            /\ \A j \in 1..(i - 1) : SubSeq(u, j, j) # "."
    ELSE Len(u) + 1
SplitAt(u, dot, neg, s0) ==
    DecimalLiteral(SubSeq(u, 1, dot - 1), SubSeq(u, dot + 1, Len(u)), neg, s0)
Unsigned(u, neg, s0) ==
    IF u \in {"inf", "infinity", "Infinity", "Inf"} THEN Ok(PyInf)
    ELSE IF u \in {"nan", "NaN"} THEN Ok(PyNaN)
    ELSE SplitAt(u, FirstDot(u), neg, s0)
Signed(s, s0) ==
    IF s # "" /\ SubSeq(s, 1, 1) \in {"-", "+"}
    THEN Unsigned(SubSeq(s, 2, Len(s)), SubSeq(s, 1, 1) = "-", s0)
    ELSE Unsigned(s, FALSE, s0)
\* float(s) for a str: a signed decimal literal, "inf" or "nan"; the value is
\* kept to its first decimal digit, which is all int() can depend on
FloatOfStr(s0) == Signed(Strip(s0), s0)

\* float(v)
FloatOf(v) ==
    CASE v.t = "int" -> Ok(PyFloat(10 * v.n))
      [] v.t = "bool" -> Ok(PyFloat(IF v.b THEN 10 ELSE 0))
      [] v.t \in {"float", "inf", "nan"} -> Ok(v)
      [] v.t = "str" -> FloatOfStr(v.s)
      [] OTHER -> Raise("TypeError",
                        "float() argument must be a string or a real number, not '"
                        \o TypeName(v) \o "'")

\* int(f) for a float f: truncation toward zero
IntOfFloat(f) ==
    CASE f.t = "inf" -> Raise("OverflowError", "cannot convert float infinity to integer")
      [] f.t = "nan" -> Raise("ValueError", "cannot convert float NaN to integer")
      [] OTHER -> Ok(PyInt(IF f.tenths < 0 THEN -((-f.tenths) \div 10) ELSE f.tenths \div 10))

\* len(v)
PyLen(v) ==
    CASE v.t = "str" -> Ok(Len(v.s))
      [] v.t = "list" -> Ok(Len(v.a))
      [] v.t = "dict" -> Ok(Len(v.keys))
      [] OTHER -> Raise("TypeError", "object of type '" \o TypeName(v) \o "' has no len()")

\* v[:n]
PySlice(v, n) ==
    CASE v.t = "str" -> Ok(PyStr(SubSeq(v.s, 1, Min(n, Len(v.s)))))
      [] v.t = "list" -> Ok(PyList(SubSeq(v.a, 1, Min(n, Len(v.a)))))
      \* a dict cannot be sliced: TypeError (KeyError from Python 3.12 on)
      [] v.t = "dict" -> Raise("TypeError", "unhashable type: 'slice'")
      [] OTHER -> Raise("TypeError", "'" \o TypeName(v) \o "' object is not subscriptable")

\* k in v
PyIn(k, v) ==
    CASE v.t = "dict" -> Ok(DictHas(v, k))
      [] v.t = "list" -> Ok(\E i \in 1..Len(v.a) : v.a[i] = PyStr(k))
      [] v.t = "str" -> Ok(Contains(v.s, k))
      [] OTHER -> Raise("TypeError", "argument of type '" \o TypeName(v) \o "' is not iterable")

\* v.get(k, default)
PyGet(v, k, default) ==
    IF v.t = "dict" THEN Ok(DictGet(v, k, default))
    ELSE Raise("AttributeError", "'" \o TypeName(v) \o "' object has no attribute 'get'")

ErrorDoc(msg) == PyDict(<<"error">>, <<PyStr(msg)>>)

(* ------------------------------ state --------------------------------- *)
VARIABLES
    env_key,   \* os.environ.get('SERPAPI_API_KEY'): PyNone when unset
    pc,        \* per invocation: "idle", "awaiting" (suspended in client.get),
               \* "returned" or "raised"
    tool,      \* per invocation: "search_flights" or "search_hotels"
    args,      \* per invocation: the caller's arguments
    params,    \* per invocation: the local dict `params`
    http,      \* per invocation: its AsyncClient's exchange with the upstream
    gets,      \* per invocation: number of client.get calls issued
    result,    \* per invocation: the document handed to json.dumps
    text,      \* per invocation: the string returned to the caller
    raised     \* per invocation: the exception that left the tool, if any

vars == <<env_key, pc, tool, args, params, http, gets, result, text, raised>>

Procs == 1..NInv
NoExchange == [st |-> "none"]
NoException == [exc |-> "none", msg |-> ""]

(* --------------------- make_serpapi_request --------------------------- *)
MissingKeyDoc ==
    ErrorDoc("SERPAPI_API_KEY environment variable is not set. "
             \o "Please add it to your .env file or configuration.")

\* params['api_key'] = os.environ.get('SERPAPI_API_KEY')
InjectKey(p, key) == DictSet(p, "api_key", key)

\* response.raise_for_status() lets only 2xx through
IsSuccess(status) == status \in 200..299

\* str(e) of the HTTPStatusError raise_for_status raises
StatusErrorText(status) ==
    (CASE status \in 100..199 -> "Informational response"
       [] status \in 300..399 -> "Redirect response"
       [] status \in 400..499 -> "Client error"
       [] OTHER -> "Server error")
    \o " '" \o IntStr(status) \o "' for url '" \o "https://serpapi.com/search" \o "'"

\* response.json(): the body parsed, or json.JSONDecodeError
ResponseJson(body) ==
    IF body.json THEN Ok(body.doc)
    ELSE Raise("JSONDecodeError", "Expecting value: line 1 column 1 (char 0)")

\* the except httpx.HTTPStatusError branch, had it returned the parsed error
\* body itself instead of wrapping its `error` member
StatusErrorDocumentBare(status, body) ==
    LET error_data == ResponseJson(body)
    IN IF error_data.ok THEN error_data.v
       ELSE ErrorDoc("HTTP error occurred: " \o StatusErrorText(status))
\* the except httpx.HTTPStatusError branch
StatusErrorDocument(status, body) ==
    LET error_data == ResponseJson(body)
        detail == IF error_data.ok
                  THEN PyGet(error_data.v, "error", PyStr(StatusErrorText(status)))
                  ELSE error_data
    IN IF detail.ok
       THEN ErrorDoc("SerpAPI error: " \o PyStrOf(detail.v))
       ELSE ErrorDoc("HTTP error occurred: " \o StatusErrorText(status))

\* what make_serpapi_request returns once client.get has completed or failed
ResponseDocument(outcome) ==
    IF outcome.kind = "failure"
    THEN ErrorDoc("Request failed: " \o outcome.msg)
    ELSE IF IsSuccess(outcome.status)
    THEN LET parsed == ResponseJson(outcome.body)
         IN IF parsed.ok THEN parsed.v ELSE ErrorDoc("Request failed: " \o parsed.msg)
    ELSE StatusErrorDocument(outcome.status, outcome.body)

(* -------------------------- search_flights ---------------------------- *)
\* params, had it been one module-level dict that every call fills in again
SharedParams(i) ==
    IF \E j \in Procs : j # i /\ pc[j] # "idle"
    THEN params[CHOOSE j \in Procs : j # i /\ pc[j] # "idle"]
    ELSE EmptyDict
\* params = {...}: the dict literal creates a new object for every call
NewParams(i) == EmptyDict

\* the flight type, had the two branches been exchanged
TripParamsSwapped(p, return_date) ==
    IF Truthy(return_date)
    THEN DictSet(p, "type", PyStr("2"))
    ELSE DictSet(DictSet(p, "type", PyStr("1")), "return_date", return_date)
\* Set flight type: 1 = Round trip, 2 = One way
TripParams(p, return_date) ==
    IF Truthy(return_date)
    THEN DictSet(DictSet(p, "type", PyStr("1")), "return_date", return_date)
    ELSE DictSet(p, "type", PyStr("2"))

RECURSIVE SetAll(_, _)
\* d[k] = v for each <<k, v>> of pairs, in order
SetAll(d, pairs) ==
    IF pairs = <<>> THEN d
    ELSE SetAll(DictSet(d, pairs[1][1], pairs[1][2]), Tail(pairs))

FlightParams(i, a) ==
    TripParams(
        SetAll(NewParams(i),
               << <<"engine", PyStr("google_flights")>>,
                  <<"hl", PyStr("en")>>,
                  <<"gl", PyStr("us")>>,
                  <<"departure_id", a.departure_airport>>,
                  <<"arrival_id", a.arrival_airport>>,
                  <<"outbound_date", a.outbound_date>>,
                  <<"currency", PyStr("USD")>>,
                  <<"adults", a.adults>>,
                  <<"children", a.children>> >>),
        a.return_date)

\* best_flights, had it been cut like other_flights
BestFlightsShownTen(best) == PySlice(best, 10)
\* json.dumps(best_flights): the whole array
BestFlightsShown(best) == Ok(best)
\* other_flights[:10]
OtherFlightsShown(other) == PySlice(other, 10)

\* the body of the try block after the await; Raise when it throws
FlightsTry(data) ==
    IF ~Truthy(data) THEN Ok(ErrorDoc("Unable to fetch flight data"))
    ELSE
    LET has_error == PyIn("error", data) IN
    IF ~has_error.ok THEN has_error
    ELSE IF has_error.v THEN Ok(data)
    ELSE
    LET best_flights == PyGet(data, "best_flights", PyList(<<>>)) IN
    IF ~best_flights.ok THEN best_flights
    ELSE IF ~Truthy(best_flights.v)
    THEN LET other_flights == DictGet(data, "other_flights", PyList(<<>>)) IN
         IF Truthy(other_flights)
         THEN LET n == PyLen(other_flights)
                  shown == OtherFlightsShown(other_flights)
              IN IF ~n.ok THEN n
                 ELSE IF ~shown.ok THEN shown
                 ELSE Ok(PyDict(<<"message", "flights">>,
                                <<PyStr("No best flights found, showing other options"),
                                  shown.v>>))
         ELSE Ok(PyDict(<<"message", "available_keys">>,
                        <<PyStr("No flights found"), DictKeys(data)>>))
    ELSE LET n == PyLen(best_flights.v)
         IN IF ~n.ok THEN n ELSE BestFlightsShown(best_flights.v)

\* the document search_flights serializes, the except clause included
FlightsResult(data) ==
    LET r == FlightsTry(data)
    IN IF r.ok THEN r.v ELSE ErrorDoc("Flight search failed: " \o r.msg)

(* --------------------------- search_hotels ---------------------------- *)
\* int(float(v)) if v else default
CoerceInt(v, default) ==
    IF Truthy(v)
    THEN LET f == FloatOf(v) IN IF f.ok THEN IntOfFloat(f.v) ELSE f
    ELSE Ok(PyInt(default))

\* sort_by, had codes outside {8, 3, 13} been replaced by the default
SortByValidated(v) ==
    LET c == CoerceInt(v, 8)
    IN IF c.ok /\ c.v.n \notin {8, 3, 13} THEN Ok(PyInt(8)) ELSE c
\* sort_by = int(float(sort_by)) if sort_by else 8
SortByParam(v) == CoerceInt(v, 8)

\* the first coercion that throws ends the call
FirstFailure(adults, children, rooms, sort_by) ==
    IF ~adults.ok THEN adults
    ELSE IF ~children.ok THEN children
    ELSE IF ~rooms.ok THEN rooms
    ELSE IF ~sort_by.ok THEN sort_by
    ELSE Ok([adults |-> adults.v, children |-> children.v,
             rooms |-> rooms.v, sort_by |-> sort_by.v])
\* the four coercions, in order
HotelCoercion(a) ==
    FirstFailure(CoerceInt(a.adults, 1), CoerceInt(a.children, 0),
                 CoerceInt(a.rooms, 1), SortByParam(a.sort_by))

\* c: the coerced counts
HotelParams(i, a, c) ==
    LET p == SetAll(NewParams(i),
                    << <<"engine", PyStr("google_hotels")>>,
                       <<"hl", PyStr("en")>>,
                       <<"gl", PyStr("us")>>,
                       <<"q", a.location>>,
                       <<"check_in_date", a.check_in_date>>,
                       <<"check_out_date", a.check_out_date>>,
                       <<"currency", PyStr("USD")>>,
                       <<"adults", c.adults>>,
                       <<"children", c.children>>,
                       <<"rooms", c.rooms>>,
                       <<"sort_by", c.sort_by>> >>)
    IN IF Truthy(a.hotel_class) THEN DictSet(p, "hotel_class", a.hotel_class) ELSE p

\* the properties shown, had the cut been at 10
TopPropertiesTen(properties) == PySlice(properties, 10)
\* properties[:5]
TopProperties(properties) == PySlice(properties, 5)

HotelsTry(data) ==
    IF ~Truthy(data) THEN Ok(ErrorDoc("Unable to fetch hotel data"))
    ELSE
    LET has_error == PyIn("error", data) IN
    IF ~has_error.ok THEN has_error
    ELSE IF has_error.v THEN Ok(data)
    ELSE
    LET properties == PyGet(data, "properties", PyList(<<>>)) IN
    IF ~properties.ok THEN properties
    ELSE IF ~Truthy(properties.v)
    THEN Ok(PyDict(<<"message", "available_keys">>,
                   <<PyStr("No hotels found"), DictKeys(data)>>))
    ELSE LET n == PyLen(properties.v)
         IN IF ~n.ok THEN n ELSE TopProperties(properties.v)

HotelsResult(data) ==
    LET r == HotelsTry(data)
    IN IF r.ok THEN r.v ELSE ErrorDoc("Hotel search failed: " \o r.msg)

ToolResult(t, data) ==
    IF t = "search_flights" THEN FlightsResult(data) ELSE HotelsResult(data)

(* ------------------------------ actions ------------------------------- *)
\* return json.dumps(doc, indent=2)
Return(i, doc) ==
    /\ pc' = [pc EXCEPT ![i] = "returned"]
    /\ result' = [result EXCEPT ![i] = doc]
    /\ text' = [text EXCEPT ![i] = Dumps(doc)]

\* make_serpapi_request up to its await: the key is injected; without a key
\* the error document comes back at once, with one the GET goes out
Execute(i, t, p) ==
    LET q == InjectKey(p, env_key) IN
    /\ params' = [params EXCEPT ![i] = q]
    /\ IF ~Truthy(env_key)
       THEN /\ Return(i, ToolResult(t, MissingKeyDoc))
            /\ UNCHANGED <<http, gets>>
       ELSE /\ http' = [http EXCEPT ![i] = [st |-> "sent", query |-> q]]
            /\ gets' = [gets EXCEPT ![i] = @ + 1]
            /\ pc' = [pc EXCEPT ![i] = "awaiting"]
            /\ UNCHANGED <<result, text>>

SearchFlights(i, a) ==
    /\ pc[i] = "idle"
    /\ tool' = [tool EXCEPT ![i] = "search_flights"]
    /\ args' = [args EXCEPT ![i] = a]
    /\ Execute(i, "search_flights", FlightParams(i, a))
    /\ UNCHANGED <<env_key, raised>>

SearchHotels(i, a) ==
    /\ pc[i] = "idle"
    /\ tool' = [tool EXCEPT ![i] = "search_hotels"]
    /\ args' = [args EXCEPT ![i] = a]
    /\ LET c == HotelCoercion(a) IN
       IF c.ok
       THEN /\ Execute(i, "search_hotels", HotelParams(i, a, c.v))
            /\ UNCHANGED <<env_key, raised>>
       ELSE /\ pc' = [pc EXCEPT ![i] = "raised"]
            /\ raised' = [raised EXCEPT ![i] = [exc |-> c.exc, msg |-> c.msg]]
            /\ UNCHANGED <<env_key, params, http, gets, result, text>>

\* the upstream (or the network) settles the GET
Settle(i, outcome) ==
    /\ http[i].st = "sent"
    /\ http' = [http EXCEPT ![i] = [st |-> "answered", query |-> http[i].query,
                                    outcome |-> outcome]]
    /\ UNCHANGED <<env_key, pc, tool, args, params, gets, result, text, raised>>

\* the coroutine resumes after the await and runs to its return
Resume(i) ==
    /\ pc[i] = "awaiting"
    /\ http[i].st = "answered"
    /\ Return(i, ToolResult(tool[i], ResponseDocument(http[i].outcome)))
    /\ UNCHANGED <<env_key, tool, args, params, http, gets, raised>>

(* ------------------------------ inputs -------------------------------- *)
Credentials == {PyNone, PyStr(""), PyStr("secret-key")}

FlightArgs ==
    [departure_airport : {PyStr("JFK")},
     arrival_airport : {PyStr("LHR")},
     outbound_date : {PyStr("2025-12-15")},
     return_date : {PyNone, PyStr(""), PyStr("2025-12-20")},
     adults : {PyInt(1), PyInt(2)},
     children : {PyInt(0)}]

\* what a loosely typed caller passes for a count
CountInputs ==
    {PyInt(2), PyInt(0), PyNone, PyStr("2"), PyStr("two"), PyFloat(25), PyInf, PyNaN}
SortByInputs ==
    {PyInt(8), PyInt(3), PyInt(13), PyInt(5), PyInt(0), PyInt(-1), PyNone,
     PyFloat(37), PyStr("13"), PyStr(""), PyStr("abc"), PyInf, PyNaN}
HotelClassInputs == {PyNone, PyStr(""), PyStr("3,4")}

DefaultHotelArgs ==
    [location |-> PyStr("Paris"), check_in_date |-> PyStr("2025-12-15"),
     check_out_date |-> PyStr("2025-12-20"), adults |-> PyInt(1),
     children |-> PyInt(0), rooms |-> PyInt(1), hotel_class |-> PyNone,
     sort_by |-> PyInt(8)]
\* the defaults with one argument, or sort_by and hotel_class, set by the caller
HotelArgs ==
    {[DefaultHotelArgs EXCEPT !.adults = v] : v \in CountInputs}
    \cup {[DefaultHotelArgs EXCEPT !.children = v] : v \in CountInputs}
    \cup {[DefaultHotelArgs EXCEPT !.rooms = v] : v \in CountInputs}
    \cup {[DefaultHotelArgs EXCEPT !.sort_by = v, !.hotel_class = h] :
            v \in SortByInputs, h \in HotelClassInputs}

\* the k-th entry of a result array
Entry(k) == PyDict(<<"id">>, <<PyInt(k)>>)
Entries(n) == PyList([k \in 1..n |-> Entry(k)])

Absent == [t |-> "absent"]
RECURSIVE MkDoc(_)
\* the JSON object with the given <<key, value>> members, Absent ones left out
MkDoc(pairs) ==
    IF pairs = <<>> THEN EmptyDict
    ELSE LET rest == MkDoc(SubSeq(pairs, 1, Len(pairs) - 1))
             last == pairs[Len(pairs)]
         IN IF last[2] = Absent THEN rest ELSE DictSet(rest, last[1], last[2])

NotArrays == {PyNone, PyStr("abcdefghijkl"), PyInt(5), PyBool(TRUE), PyDict(<<"a">>, <<PyInt(1)>>)}
MetaValues == {Absent, PyDict(<<"status">>, <<PyStr("Success")>>)}
BestValues == {Absent} \cup {Entries(n) : n \in {0, 1, 2, MaxBest}} \cup NotArrays
OtherValues == {Absent} \cup {Entries(n) : n \in {0, 3, MaxOther}} \cup NotArrays
PropertyValues == {Absent} \cup {Entries(n) : n \in {0, 1, 5, 6, MaxProps}} \cup NotArrays

FlightDocs ==
    {MkDoc(<< <<"search_metadata", m>>, <<"best_flights", b>>, <<"other_flights", o>> >>) :
        m \in MetaValues, b \in BestValues, o \in OtherValues}
HotelDocs ==
    {MkDoc(<< <<"search_metadata", m>>, <<"properties", p>> >>) :
        m \in MetaValues, p \in PropertyValues}
ErrorDocs ==
    {PyDict(<<"error">>, <<PyStr("Invalid API key.")>>),
     PyDict(<<"error">>, <<PyInt(5)>>),
     PyDict(<<"error">>, <<PyNone>>),
     PyDict(<<"message", "error">>, <<PyStr("m"), PyStr("e")>>),
     PyDict(<<"best_flights", "properties", "error">>,
            <<Entries(1), Entries(1), PyStr("partial")>>)}
NotObjects ==
    {PyNone, PyInt(0), PyInt(7), PyBool(TRUE), PyStr(""), PyStr("ok"), PyStr("error"),
     PyStr("an error occurred"), PyList(<<>>), PyList(<<PyStr("error")>>), Entries(2)}

JsonBody(doc) == [json |-> TRUE, doc |-> doc]
NotJsonBody == [json |-> FALSE, raw |-> "<html>Bad Gateway</html>"]
Bodies ==
    {JsonBody(d) : d \in FlightDocs \cup HotelDocs \cup ErrorDocs \cup NotObjects}
    \cup {NotJsonBody}
Statuses == {200, 302, 404, 500}

Response(status, body) == [kind |-> "response", status |-> status, body |-> body]
Failure(msg) == [kind |-> "failure", msg |-> msg]
Failures == {Failure("All connection attempts failed"), Failure("timed out")}
Outcomes == {Response(s, b) : s \in Statuses, b \in Bodies} \cup Failures

(* ----------------------- one invocation at a time --------------------- *)
Init ==
    /\ env_key \in Credentials
    /\ pc = [i \in Procs |-> "idle"]
    /\ tool = [i \in Procs |-> "none"]
    /\ args = [i \in Procs |-> <<>>]
    /\ params = [i \in Procs |-> EmptyDict]
    /\ http = [i \in Procs |-> NoExchange]
    /\ gets = [i \in Procs |-> 0]
    /\ result = [i \in Procs |-> PyNone]
    /\ text = [i \in Procs |-> ""]
    /\ raised = [i \in Procs |-> NoException]

Next ==
    \/ \E a \in FlightArgs : SearchFlights(1, a)
    \/ \E a \in HotelArgs : SearchHotels(1, a)
    \/ \E o \in Outcomes : Settle(1, o)
    \/ Resume(1)

Spec == Init /\ [][Next]_vars

(* ---------------------- concurrent invocations ------------------------ *)
\* invocation i's arguments carry its number, so that no two share a string
ConcFlightArgs(i) ==
    [departure_airport : {PyStr("DEP" \o IntStr(i))},
     arrival_airport : {PyStr("ARR" \o IntStr(i))},
     outbound_date : {PyStr("2026-01-0" \o IntStr(i))},
     return_date : {PyNone, PyStr("2026-02-0" \o IntStr(i))},
     adults : {PyInt(1)},
     children : {PyInt(0)}]
ConcHotelArgs(i) ==
    [location : {PyStr("City" \o IntStr(i))},
     check_in_date : {PyStr("2026-03-0" \o IntStr(i))},
     check_out_date : {PyStr("2026-04-0" \o IntStr(i))},
     adults : {PyInt(1)},
     children : {PyInt(0)},
     rooms : {PyInt(1)},
     hotel_class : {PyNone, PyStr("4," \o IntStr(i))},
     sort_by : {PyInt(8)}]

\* the upstream answers a request about what the request asked: every
\* document it sends names the request's parameters
EchoOutcomes(q) ==
    LET asked == DictWithout(q, "api_key")
        found == PyList(<<PyDict(<<"id", "search">>, <<PyInt(1), asked>>),
                          PyDict(<<"id", "search">>, <<PyInt(2), asked>>)>>)
        listing == IF DictGet(q, "engine", PyNone) = PyStr("google_flights")
                   THEN "best_flights" ELSE "properties"
    IN {Response(200, JsonBody(PyDict(<<"search_parameters", listing>>, <<asked, found>>))),
        Response(200, JsonBody(PyDict(<<"search_parameters">>, <<asked>>))),
        Response(400, JsonBody(PyDict(<<"error">>, <<PyStr("No results for " \o PyRepr(asked))>>))),
        Failure("timed out")}

ConcSettle(i) ==
    /\ http[i].st = "sent"
    /\ \E o \in EchoOutcomes(http[i].query) : Settle(i, o)

NextConc ==
    \E i \in Procs :
        \/ \E a \in ConcFlightArgs(i) : SearchFlights(i, a)
        \/ \E a \in ConcHotelArgs(i) : SearchHotels(i, a)
        \/ ConcSettle(i)
        \/ Resume(i)

SpecConc == Init /\ [][NextConc]_vars

(* ------------------------------ claims -------------------------------- *)
Finished(i) == pc[i] \in {"returned", "raised"}
\* the upstream answered invocation i with an HTTP response
Responded(i) == http[i].st = "answered" /\ http[i].outcome.kind = "response"
\* ... with a 2xx response whose body is a JSON object without an `error` key
PlainObject(i) ==
    /\ Responded(i)
    /\ IsSuccess(http[i].outcome.status)
    /\ http[i].outcome.body.json
    /\ http[i].outcome.body.doc.t = "dict"
    /\ ~DictHas(http[i].outcome.body.doc, "error")
UpstreamDoc(i) == http[i].outcome.body.doc
\* key k of document d is absent or an empty array
EmptyOrAbsent(d, k) == ~DictHas(d, k) \/ DictGet(d, k, PyNone) = PyList(<<>>)
NonEmptyArray(d, k) ==
    /\ DictHas(d, k)
    /\ DictGet(d, k, PyNone).t = "list"
    /\ DictGet(d, k, PyNone) # PyList(<<>>)
IsErrorObject(r) == r.t = "dict" /\ DictHas(r, "error")

\* C1: no invocation of either tool raises past the tool boundary; each ends
\* by returning a non-empty string (the serialization of a JSON document).
C1_NeverRaises ==
    \A i \in Procs :
        /\ pc[i] # "raised"
        /\ pc[i] = "returned" => (text[i] # "" /\ text[i] = Dumps(result[i]))

\* C2: an invocation issues no GET when the credential is unset or empty, and
\* then returns an error document; it issues exactly one GET when the
\* credential is set, whatever the outcome.
C2_GetCount ==
    \A i \in Procs :
        /\ gets[i] <= 1
        /\ Finished(i) =>
              IF Truthy(env_key)
              THEN gets[i] = 1
              ELSE gets[i] = 0 /\ pc[i] = "returned" /\ IsErrorObject(result[i])

\* what C2 says of the invocations that return: the GET count without the
\* calls search_hotels abandons while coercing its arguments
GetCountWhenReturned ==
    \A i \in Procs :
        pc[i] = "returned" =>
            IF Truthy(env_key)
            THEN gets[i] = 1
            ELSE gets[i] = 0 /\ IsErrorObject(result[i])

\* C3: a 2xx object without `error` whose best_flights is a non-empty array
\* makes search_flights return exactly that array, whole and in order.
C3_BestFlightsInFull ==
    \A i \in Procs :
        (/\ pc[i] = "returned"
         /\ tool[i] = "search_flights"
         /\ PlainObject(i)
         /\ NonEmptyArray(UpstreamDoc(i), "best_flights"))
        => /\ result[i] = DictGet(UpstreamDoc(i), "best_flights", PyNone)
           /\ Len(result[i].a) = Len(DictGet(UpstreamDoc(i), "best_flights", PyNone).a)
           /\ text[i] = Dumps(DictGet(UpstreamDoc(i), "best_flights", PyNone))
C3_Witness ==
    /\ pc[1] = "returned"
    /\ tool[1] = "search_flights"
    /\ PlainObject(1)
    /\ NonEmptyArray(UpstreamDoc(1), "best_flights")
    /\ Len(DictGet(UpstreamDoc(1), "best_flights", PyNone).a) = MaxBest
    /\ NonEmptyArray(UpstreamDoc(1), "other_flights")
    /\ Len(result[1].a) = MaxBest

\* C4: a 2xx object without `error` in which best_flights and other_flights
\* are each empty or absent makes search_flights return a diagnostic (a
\* `message`, no `error`) whose available_keys are the object's keys.
C4_DiagnosticKeys ==
    \A i \in Procs :
        (/\ pc[i] = "returned"
         /\ tool[i] = "search_flights"
         /\ PlainObject(i)
         /\ EmptyOrAbsent(UpstreamDoc(i), "best_flights")
         /\ EmptyOrAbsent(UpstreamDoc(i), "other_flights"))
        => /\ result[i].t = "dict"
           /\ DictHas(result[i], "message")
           /\ ~DictHas(result[i], "error")
           /\ DictGet(result[i], "available_keys", PyNone) = DictKeys(UpstreamDoc(i))

\* C5: a 2xx object without `error` whose properties is an array of n >= 1
\* entries makes search_hotels return its first min(n, 5) entries, in order.
C5_FirstFiveProperties ==
    \A i \in Procs :
        (/\ pc[i] = "returned"
         /\ tool[i] = "search_hotels"
         /\ PlainObject(i)
         /\ NonEmptyArray(UpstreamDoc(i), "properties"))
        => LET properties == DictGet(UpstreamDoc(i), "properties", PyNone).a
           IN /\ result[i].t = "list"
              /\ Len(result[i].a) = Min(Len(properties), 5)
              /\ \A k \in 1..Len(result[i].a) : result[i].a[k] = properties[k]
C5_Witness ==
    /\ pc[1] = "returned"
    /\ tool[1] = "search_hotels"
    /\ PlainObject(1)
    /\ NonEmptyArray(UpstreamDoc(1), "properties")
    /\ Len(DictGet(UpstreamDoc(1), "properties", PyNone).a) = MaxProps
    /\ result[1] = Entries(5)

\* C6 as stated: the query has type "2" and no return_date when return_date
\* is unset, and type "1" with the caller's return_date whenever it is set.
C6_TripTypeWhenSet ==
    \A i \in Procs :
        (tool[i] = "search_flights" /\ pc[i] # "idle")
        => IF args[i].return_date = PyNone
           THEN /\ DictGet(params[i], "type", PyNone) = PyStr("2")
                /\ ~DictHas(params[i], "return_date")
           ELSE /\ DictGet(params[i], "type", PyNone) = PyStr("1")
                /\ DictGet(params[i], "return_date", PyNone) = args[i].return_date
\* C6 as amended: the query has type "2" and no return_date when return_date
\* is unset or the empty string, and type "1" with the caller's return_date
\* when it is a non-empty string.
C6_TripTypeWhenNonEmpty ==
    \A i \in Procs :
        (tool[i] = "search_flights" /\ pc[i] # "idle")
        => IF args[i].return_date \in {PyNone, PyStr("")}
           THEN /\ DictGet(params[i], "type", PyNone) = PyStr("2")
                /\ ~DictHas(params[i], "return_date")
           ELSE /\ DictGet(params[i], "type", PyNone) = PyStr("1")
                /\ DictGet(params[i], "return_date", PyNone) = args[i].return_date
C6_Witness ==
    /\ tool[1] = "search_flights"
    /\ pc[1] = "awaiting"
    /\ args[1].return_date = PyStr("2025-12-20")
    /\ DictGet(http[1].query, "type", PyNone) = PyStr("1")
    /\ DictGet(http[1].query, "return_date", PyNone) = PyStr("2025-12-20")

\* C7: when the upstream answers 4xx or 5xx, whatever the body, the tool's
\* result is an object with an `error` field and without `flights`,
\* `properties` and `message`.
C7_StatusErrorShape ==
    \A i \in Procs :
        (/\ pc[i] = "returned"
         /\ Responded(i)
         /\ http[i].outcome.status \in 400..599)
        => /\ IsErrorObject(result[i])
           /\ \A k \in {"flights", "properties", "message"} : ~DictHas(result[i], k)
C7_Witness ==
    /\ pc[1] = "returned"
    /\ Responded(1)
    /\ http[1].outcome.status = 404
    /\ http[1].outcome.body = JsonBody(PyDict(<<"message", "error">>, <<PyStr("m"), PyStr("e")>>))
    /\ result[1] = ErrorDoc("SerpAPI error: e")

\* the strings only invocation j's caller supplied
OwnStrings(j) ==
    IF pc[j] = "idle" THEN {}
    ELSE {args[j][f].s : f \in {g \in DOMAIN args[j] : args[j][g].t = "str"}}
\* the values invocation i's query may carry: fixed ones, the credential, and
\* its own arguments
OwnValues(i) ==
    {PyStr(c) : c \in {"google_flights", "google_hotels", "en", "us", "USD", "1", "2"}}
    \cup {env_key}
    \cup {args[i][f] : f \in DOMAIN args[i]}
\* C8: under every interleaving of concurrent invocations with distinct
\* inputs, each invocation's query is built only from its own arguments and
\* the credential, and its result from the response to its own request.
C8_Isolation ==
    \A i \in Procs :
        /\ pc[i] # "idle" =>
              \A k \in 1..Len(params[i].vals) : params[i].vals[k] \in OwnValues(i)
        /\ http[i].st # "none" => http[i].query = params[i]
        /\ pc[i] = "returned" =>
              /\ \A j \in Procs \ {i} : \A s \in OwnStrings(j) : ~Contains(text[i], s)
              /\ result[i].t = "list" =>
                    Contains(text[i], args[i][IF tool[i] = "search_flights"
                                              THEN "departure_airport" ELSE "location"].s)
\* two invocations suspended in their GETs at once, both answered, neither resumed
C8_Witness ==
    /\ pc[1] = "awaiting" /\ pc[2] = "awaiting"
    /\ tool[1] = "search_flights" /\ tool[2] = "search_hotels"
    /\ http[1].st = "answered" /\ http[2].st = "answered"
    /\ http[1].outcome.kind = "response" /\ http[2].outcome.kind = "response"
    /\ http[1].outcome # http[2].outcome
    /\ DictHas(http[1].query, "return_date") /\ DictHas(http[2].query, "hotel_class")

C10_ThreeShapes ==
    \A i \in Procs :
        pc[i] = "returned" =>
            \/ result[i].t = "list"
            \/ result[i].t = "dict" /\ DictHas(result[i], "message") /\ ~DictHas(result[i], "error")
            \/ IsErrorObject(result[i]) /\ DictGet(result[i], "error", PyNone).t = "str"

=============================================================================
